---- MODULE Spec2Model ----
(***************************************************************************)
(* Role-gated multi-agent data access (neon-azure-secure-ai-agent-data-    *)
(* access).  Three parts are modelled:                                     *)
(*   - the data-access tool layer and the finance table it reads, together *)
(*     with the seeding script that rebuilds the table  (SpecTools);       *)
(*   - the role store lookup get_user_roles              (SpecRoles);      *)
(*   - the role-gated session of agent-data-acesss-scenarios_limited.py,   *)
(*     with the hosted agent service free to call any tool registered on   *)
(*     the agent it runs                                  (Spec).          *)
(***************************************************************************)
EXTENDS Integers, Sequences, FiniteSets, TLC

VARIABLES
    \* ---- database (shared by the seeding script and the tools)
    finance,        \* the committed finance table: [exists, rows, nextid]
    lock,           \* TRUE while the seeding transaction holds the table's exclusive lock
    \* ---- seeding script neondb_setup.py
    seed_pc,        \* position of the seeding script
    tx,             \* the seeding transaction's private view of the table
    seedRuns,       \* seeding runs [started, completed]
    printed,        \* rows printed by the seeding script's final SELECT
    \* ---- tool layer
    conns,          \* connections opened by tool calls and still open (call numbers)
    nCalls,         \* tool calls made so far
    lastCall,       \* the last tool call: tool, environment, what it returned
    \* ---- role store
    users,          \* content of user_roles.yaml: sequence of [username, roles]
    username,       \* argument of the last get_user_roles call
    found,          \* what that call returned
    \* ---- role-gated session
    pc,             \* position of the session script
    roles,          \* roles of current_user
    thread,         \* messages of the conversation thread, oldest first
    runs,           \* runs processed on the thread, oldest first
    cur,            \* the run in progress
    query_task, query_tool, present_instruction,
    delivered       \* tool outputs handed to the agent service for this thread

dbVars      == <<finance, lock>>
seedVars    == <<seed_pc, tx, seedRuns, printed>>
toolVars    == <<conns, nCalls, lastCall>>
roleVars    == <<users, username, found>>
sessionVars == <<pc, roles, thread, runs, cur, query_task, query_tool,
                 present_instruction, delivered>>
vars == <<finance, lock, seed_pc, tx, seedRuns, printed, conns, nCalls, lastCall,
          users, username, found, pc, roles, thread, runs, cur, query_task,
          query_tool, present_instruction, delivered>>

\* ------------------------------------------------------------------ bounds
MaxCalls     == 2   \* tool calls in a behaviour of the tool-layer specification
MaxSeedRuns  == 1   \* runs of the seeding script
MaxUsers     == 2   \* entries of the role file
MaxToolCalls == 2   \* tool calls the agent service asks for within one session

\* ------------------------------------------------------------ number model
\* A decimal number d / 10^s (Python int and float literals of the sources).
Dec(d, s) == [d |-> d, s |-> s]

Pow(b, n) == b ^ n

RoundHalfEven(n, q) ==
    LET f == n \div q
        r == n % q
    IN  IF 2 * r > q \/ (2 * r = q /\ f % 2 = 1) THEN f + 1 ELSE f

RECURSIVE Normalise(_)
Normalise(x) ==
    IF x.s > 0 /\ x.d % 10 = 0 THEN Normalise(Dec(x.d \div 10, x.s - 1)) ELSE x

RECURSIVE NumDigits(_)
NumDigits(n) == IF n < 10 THEN 1 ELSE 1 + NumDigits(n \div 10)

\* Significand bits and decimal output digits of a PostgreSQL REAL (float4).
Real4Bits   == 24
Real4Digits == 6

RECURSIVE BinExp(_, _)
\* least k >= i with x * 2^k >= 2^(Real4Bits - 1)
BinExp(x, i) ==
    IF x.d * Pow(2, i) >= Pow(2, Real4Bits - 1) * Pow(10, x.s) THEN i
    ELSE BinExp(x, i + 1)

\* Storing a number in a REAL column: the nearest m / 2^k with a 24-bit m.
ToReal4(x) ==
    LET k == BinExp(x, 0)
    IN  [m |-> RoundHalfEven(x.d * Pow(2, k), Pow(10, x.s)), k |-> k]

\* Reading a REAL back into a Python float: the server prints it with
\* Real4Digits significant digits (for a number that was written with at most
\* that many, the shortest round-trip output of newer servers is the same
\* digits) and the driver parses that text.
Real4ToDec(r) ==
    LET q  == r.m \div Pow(2, r.k)
        dd == Real4Digits - NumDigits(q)
        fr == RoundHalfEven((r.m % Pow(2, r.k)) * Pow(10, dd), Pow(2, r.k))
    IN  Normalise(Dec(q * Pow(10, dd) + fr, dd))

\* -------------------------------------------------------------- the table
\* financial_data of neondb_setup.py.
financial_data == <<
    <<"IBM",       Dec(75000, 0),  Dec(5000, 0),  Dec(14532, 2),  "restricted">>,
    <<"Apple",     Dec(394000, 0), Dec(99900, 0), Dec(17995, 2),  "restricted">>,
    <<"Microsoft", Dec(211000, 0), Dec(72000, 0), Dec(31410, 2),  "restricted">>,
    <<"Google",    Dec(280000, 0), Dec(76000, 0), Dec(280112, 2), "restricted">>,
    <<"Amazon",    Dec(502000, 0), Dec(33000, 0), Dec(14292, 2),  "restricted">>,
    <<"Meta",      Dec(117000, 0), Dec(39000, 0), Dec(30256, 2),  "restricted">>,
    <<"Tesla",     Dec(123000, 0), Dec(15500, 0), Dec(19935, 2),  "public">>,
    <<"Netflix",   Dec(35000, 0),  Dec(5400, 0),  Dec(41275, 2),  "public">>,
    <<"Nvidia",    Dec(26000, 0),  Dec(9600, 0),  Dec(45099, 2),  "public">>,
    <<"Samsung",   Dec(244000, 0), Dec(41000, 0), Dec(7010, 2),   "public">> >>

NoTable == [exists |-> FALSE, rows |-> <<>>, nextid |-> 1]

\* CREATE TABLE finance (id SERIAL PRIMARY KEY, company TEXT, revenue REAL, ...)
EmptyTable == [exists |-> TRUE, rows |-> <<>>, nextid |-> 1]

\* DROP TABLE IF EXISTS finance (the SERIAL's sequence goes with the table)
DropKeepsTable(t) == t
DropTableIfExists(t) == NoTable

\* CREATE TABLE IF NOT EXISTS finance (...)
CreateTableIfNotExists(t) == IF t.exists THEN t ELSE EmptyTable

\* One stored row: id from the SERIAL, the three REAL columns converted.
StoredRow(id, v) ==
    [id |-> id, company |-> v[1], revenue |-> ToReal4(v[2]), profit |-> ToReal4(v[3]),
     stock_price |-> ToReal4(v[4]), user_role |-> v[5]]

\* INSERT INTO finance (company, revenue, profit, stock_price, user_role) VALUES %s
InsertValues(t, values) ==
    [exists |-> TRUE,
     rows   |-> t.rows \o [i \in 1..Len(values) |-> StoredRow(t.nextid + i - 1, values[i])],
     nextid |-> t.nextid + Len(values)]

\* A table left by an earlier, different load (rows the current script does not insert).
StaleValues == <<
    <<"IBM",    Dec(60000, 0), Dec(4000, 0), Dec(13001, 2), "public">>,
    <<"Oracle", Dec(50000, 0), Dec(8500, 0), Dec(11845, 2), "restricted">> >>

StaleTable  == InsertValues(EmptyTable, StaleValues)
SeededTable == InsertValues(EmptyTable, financial_data)

\* --------------------------------------------------------- SQL of the tools
SqlAll        == "SELECT * FROM finance"
SqlLimited    == "SELECT company, stock_price FROM finance"
SqlRowLevel   == "SELECT * FROM finance WHERE user_role = 'restricted'"
SqlIBM        == "SELECT * FROM finance WHERE company = 'IBM'"

\* A row as RealDictCursor hands it to Python: REAL columns become floats.
FullRow(r) ==
    [id |-> r.id, company |-> r.company, revenue |-> Real4ToDec(r.revenue),
     profit |-> Real4ToDec(r.profit), stock_price |-> Real4ToDec(r.stock_price),
     user_role |-> r.user_role]

LimitedRow(r) == [company |-> r.company, stock_price |-> Real4ToDec(r.stock_price)]

\* WHERE user_role = 'restricted'
WhereRestricted(rows) ==
    LET F[i \in 0..Len(rows)] ==
            IF i = 0 THEN <<>>
            ELSE IF rows[i].user_role = "restricted" THEN Append(F[i - 1], rows[i])
            ELSE F[i - 1]
    IN  F[Len(rows)]

\* WHERE company = 'IBM'
WhereIBM(rows) ==
    LET F[i \in 0..Len(rows)] ==
            IF i = 0 THEN <<>>
            ELSE IF rows[i].company = "IBM" THEN Append(F[i - 1], rows[i])
            ELSE F[i - 1]
    IN  F[Len(rows)]

\* cursor.execute(sql); cursor.fetchall() on an existing table (heap order)
RunSelect(sql, t) ==
    CASE sql = SqlAll      -> [i \in 1..Len(t.rows) |-> FullRow(t.rows[i])]
      [] sql = SqlLimited  -> [i \in 1..Len(t.rows) |-> LimitedRow(t.rows[i])]
      [] sql = SqlRowLevel ->
            LET w == WhereRestricted(t.rows) IN [i \in 1..Len(w) |-> FullRow(w[i])]
      [] sql = SqlIBM      ->
            LET w == WhereIBM(t.rows) IN [i \in 1..Len(w) |-> FullRow(w[i])]

\* ------------------------------------------------------- tool return values
\* A returned string: whether it starts with the error marker (U+274C), its
\* literal text, the interpolated detail and the joined lines.
Text(marker, text, detail, lines) ==
    [marker |-> marker, text |-> text, detail |-> detail, lines |-> lines]

\* str(row) of a fetched row: its type name and every key with its value.
StrRow(row) == [type |-> "RealDictRow", items |-> row]

\* "\n".join([str(row) for row in rows])
JoinRows(rows) == [i \in 1..Len(rows) |-> StrRow(rows[i])]

\* What a call leaves behind: the returned string, or the exception that escaped,
\* and what happened to the connection it opened.
Returned(ret, opened, closed) ==
    [raised |-> FALSE, ret |-> ret, opened |-> opened, closed |-> closed]
Raised(exc) ==
    [raised |-> TRUE, ret |-> Text(FALSE, "", exc, <<>>), opened |-> FALSE, closed |-> FALSE]

\* ------------------------------------------------------------- database tools
\* Where the environment makes a database call fail.
DbFaults == {"none", "connect", "execute", "fetchall", "close"}

\* The exception a database tool meets, "" when it meets none.  cursor.execute
\* raises by itself when the table does not exist.
DbException(fault, t) ==
    IF fault = "connect" THEN "OperationalError: could not connect"
    ELSE IF fault = "execute" THEN "OperationalError: server closed the connection"
    ELSE IF ~t.exists THEN "UndefinedTable: relation finance does not exist"
    ELSE IF fault = "fetchall" THEN "OperationalError: fetch failed"
    ELSE IF fault = "close" THEN "InterfaceError: close failed"
    ELSE ""

\* The except clause shared by the database tools: the exception becomes a string.
ExceptPropagates(prefix, exc, opened) == Raised(exc)
ExceptReturnsError(prefix, exc, opened) ==
    Returned(Text(TRUE, prefix, exc, <<>>), opened, FALSE)

\* The body shared by the database tools: connect, execute, fetchall, close,
\* return the joined rows or the tool's "nothing found" text.
DbTool(sql, emptyText, errPrefix, fault, t) ==
    LET exc == DbException(fault, t)
    IN  IF exc # "" THEN ExceptReturnsError(errPrefix, exc, fault # "connect")
        ELSE LET rows == RunSelect(sql, t)
             IN  IF rows # <<>> THEN Returned(Text(FALSE, "", "", JoinRows(rows)), TRUE, TRUE)
                 ELSE Returned(Text(FALSE, emptyText, "", <<>>), TRUE, TRUE)

query_finance_data(fault, t) ==
    DbTool(SqlAll, "No finance data found.", "Error querying Neon: ", fault, t)

query_limited_finance_data(fault, t) ==
    DbTool(SqlLimited, "No limited finance data found.", "Error querying Neon: ", fault, t)

query_row_level_finance_data(fault, t) ==
    DbTool(SqlRowLevel, "No row level restricted data found.", "Error querying Neon: ",
           fault, t)

\* query_finance_data of agent-data-acesss-scenario_one.py
one_query_finance_data(fault, t) ==
    DbTool(SqlIBM, "No IBM financial records found in the database.",
           "Error querying Neon DB: ", fault, t)

\* ----------------------------------------------------------------- HTTP tools
\* What the remote service answers: no answer at all (the request raises), or a
\* status with a body that is no JSON, JSON without the expected field, or JSON
\* whose field holds n items (malformed: the items lack the expected keys).
HttpStatuses == {200, 404, 500}
HttpBodies   == {"not_json", "no_field", "items0", "items4", "malformed"}
HttpResponses ==
    {[status |-> 0, body |-> "no_response"]} \cup [status : HttpStatuses, body : HttpBodies]

StatusText(status) ==
    CASE status = 200 -> "200" [] status = 404 -> "404" [] status = 500 -> "500"
      [] OTHER -> "0"

ItemCount(body) ==
    CASE body = "items4" -> 4 [] body = "malformed" -> 2 [] OTHER -> 0

\* f"{k}: {v}" for the items of the Global Quote object
QuoteLines(body) == [i \in 1..ItemCount(body) |-> [k |-> i, v |-> i]]

\* f"{r['title']} - {r['link']}" for r in results[:3]
HitLines(body) ==
    LET n == ItemCount(body)
    IN  [i \in 1..(IF n < 3 THEN n ELSE 3) |-> [title |-> i, link |-> i]]

\* The non-200 branch shared by the HTTP tools: an error string is returned.
Non200ReturnsError(prefix, detail) == Returned(Text(TRUE, prefix, detail, <<>>), FALSE, FALSE)

fetch_financial_data(resp) ==
    IF resp.body = "no_response" THEN Raised("ConnectionError")
    ELSE IF resp.status = 200 THEN
        IF resp.body = "not_json" THEN Raised("JSONDecodeError")
        ELSE IF ItemCount(resp.body) > 0 /\ resp.body # "malformed"
             THEN Returned(Text(FALSE, "", "", QuoteLines(resp.body)), FALSE, FALSE)
        ELSE IF resp.body = "malformed" THEN Raised("AttributeError")
        ELSE Returned(Text(FALSE, "No stock data found.", "", <<>>), FALSE, FALSE)
    ELSE Non200ReturnsError("API error: ", resp.body)

search_ibm_news(resp) ==
    IF resp.body = "no_response" THEN Raised("ConnectionError")
    ELSE IF resp.status = 200 THEN
        IF resp.body = "not_json" THEN Raised("JSONDecodeError")
        ELSE IF resp.body = "malformed" THEN Raised("KeyError")
        ELSE Returned(Text(FALSE, "", "", HitLines(resp.body)), FALSE, FALSE)
    ELSE Non200ReturnsError("Serper API error: ", resp.body)

\* fetch_ibm_stock of agent-data-acesss-scenario_one.py
fetch_ibm_stock(resp) ==
    IF resp.body = "no_response" THEN Raised("ConnectionError")
    ELSE IF resp.status # 200
        THEN Non200ReturnsError("Failed to fetch stock data: ", StatusText(resp.status))
    ELSE IF resp.body = "not_json" THEN Raised("JSONDecodeError")
    ELSE IF resp.body = "malformed" THEN Raised("AttributeError")
    ELSE IF ItemCount(resp.body) = 0
        THEN Returned(Text(FALSE, "No stock data found for IBM.", "", <<>>), FALSE, FALSE)
    ELSE Returned(Text(FALSE, "", "", QuoteLines(resp.body)), FALSE, FALSE)

\* search_ibm_news of agent-data-acesss-scenario_one.py
one_search_ibm_news(resp) ==
    IF resp.body = "no_response" THEN Raised("ConnectionError")
    ELSE IF resp.status # 200 THEN Non200ReturnsError("Serper search error: ", resp.body)
    ELSE IF resp.body = "not_json" THEN Raised("JSONDecodeError")
    ELSE IF ItemCount(resp.body) = 0
        THEN Returned(Text(FALSE, "No relevant search results found.", "", <<>>), FALSE, FALSE)
    ELSE IF resp.body = "malformed" THEN Raised("KeyError")
    ELSE Returned(Text(FALSE, "", "", HitLines(resp.body)), FALSE, FALSE)

\* --------------------------------------------------------- tool-call actions
NoResp == [status |-> 0, body |-> "none"]

\* A tool function is called and returns (or raises).  A connection the call
\* opened and did not close stays open unless the runtime happens to finalize
\* the unreferenced connection object (reclaim).
ToolCall(tool, fault, resp, reclaim, out) ==
    /\ nCalls < MaxCalls
    /\ nCalls' = nCalls + 1
    /\ conns' = IF out.opened /\ ~out.closed /\ ~reclaim THEN conns \cup {nCalls + 1}
                ELSE conns
    /\ lastCall' = [tool |-> tool, fault |-> fault, resp |-> resp, out |-> out,
                    seeded |-> seedRuns.completed > 0]
    /\ UNCHANGED <<dbVars, seedVars, roleVars, sessionVars>>

\* A statement on finance waits while the seeding transaction holds its lock.
CanQuery(fault) == ~lock \/ fault = "connect"

CallQueryFinanceData ==
    \E fault \in DbFaults, reclaim \in BOOLEAN :
        /\ CanQuery(fault)
        /\ \E out \in {query_finance_data(fault, finance)} :
               ToolCall("query_finance_data", fault, NoResp, reclaim, out)

CallQueryLimitedFinanceData ==
    \E fault \in DbFaults, reclaim \in BOOLEAN :
        /\ CanQuery(fault)
        /\ \E out \in {query_limited_finance_data(fault, finance)} :
               ToolCall("query_limited_finance_data", fault, NoResp, reclaim, out)

CallQueryRowLevelFinanceData ==
    \E fault \in DbFaults, reclaim \in BOOLEAN :
        /\ CanQuery(fault)
        /\ \E out \in {query_row_level_finance_data(fault, finance)} :
               ToolCall("query_row_level_finance_data", fault, NoResp, reclaim, out)

CallOneQueryFinanceData ==
    \E fault \in DbFaults, reclaim \in BOOLEAN :
        /\ CanQuery(fault)
        /\ \E out \in {one_query_finance_data(fault, finance)} :
               ToolCall("one_query_finance_data", fault, NoResp, reclaim, out)

CallFetchFinancialData ==
    \E resp \in HttpResponses :
        \E out \in {fetch_financial_data(resp)} : ToolCall("fetch_financial_data", "none", resp, FALSE, out)

CallSearchIbmNews ==
    \E resp \in HttpResponses :
        \E out \in {search_ibm_news(resp)} : ToolCall("search_ibm_news", "none", resp, FALSE, out)

CallFetchIbmStock ==
    \E resp \in HttpResponses :
        \E out \in {fetch_ibm_stock(resp)} : ToolCall("fetch_ibm_stock", "none", resp, FALSE, out)

CallOneSearchIbmNews ==
    \E resp \in HttpResponses :
        \E out \in {one_search_ibm_news(resp)} : ToolCall("one_search_ibm_news", "none", resp, FALSE, out)

\* ---------------------------------------------------- seeding script actions
\* A row as the script's plain cursor fetches it.
TupleRow(r) ==
    <<r.id, r.company, Real4ToDec(r.revenue), Real4ToDec(r.profit),
      Real4ToDec(r.stock_price), r.user_role>>

SeedStep(from, to) ==
    /\ seed_pc = from
    /\ seed_pc' = to
    /\ UNCHANGED <<toolVars, roleVars, sessionVars>>

\* psycopg2.connect(DATABASE_URL); a new run of the script
SeedConnect ==
    /\ seed_pc \in {"start", "done", "failed"}
    /\ seedRuns.started < MaxSeedRuns
    /\ \E ok \in BOOLEAN : seed_pc' = IF ok THEN "drop" ELSE "failed"
    /\ seedRuns' = [seedRuns EXCEPT !.started = @ + 1]
    /\ tx' = NoTable
    /\ printed' = <<>>
    /\ UNCHANGED <<dbVars, toolVars, roleVars, sessionVars>>

\* cursor.execute("DROP TABLE IF EXISTS finance"): opens the transaction
SeedDrop ==
    /\ SeedStep("drop", "create")
    /\ tx' = DropTableIfExists(finance)
    /\ lock' = finance.exists
    /\ UNCHANGED <<finance, seedRuns, printed>>

SeedCreate ==
    /\ SeedStep("create", "insert")
    /\ tx' = CreateTableIfNotExists(tx)
    /\ UNCHANGED <<dbVars, seedRuns, printed>>

\* execute_values(cursor, "INSERT INTO finance (...) VALUES %s", financial_data)
SeedInsert ==
    /\ SeedStep("insert", "commit")
    /\ tx' = InsertValues(tx, financial_data)
    /\ UNCHANGED <<dbVars, seedRuns, printed>>

\* conn.commit()
SeedCommit ==
    /\ SeedStep("commit", "select")
    /\ finance' = tx
    /\ lock' = FALSE
    /\ UNCHANGED <<tx, seedRuns, printed>>

\* cursor.execute("SELECT * FROM finance"); rows = cursor.fetchall(); print each
SeedSelect ==
    /\ SeedStep("select", "close")
    /\ printed' = [i \in 1..Len(finance.rows) |-> TupleRow(finance.rows[i])]
    /\ UNCHANGED <<dbVars, tx, seedRuns>>

\* cursor.close(); conn.close(); the final print
SeedClose ==
    /\ SeedStep("close", "done")
    /\ seedRuns' = [seedRuns EXCEPT !.completed = @ + 1]
    /\ UNCHANGED <<dbVars, tx, printed>>

\* Any statement may raise: the script ends there and the server rolls back
\* whatever was not committed.
SeedFail ==
    /\ seed_pc \in {"drop", "create", "insert", "commit", "select", "close"}
    /\ seed_pc' = "failed"
    /\ lock' = FALSE
    /\ tx' = NoTable
    /\ UNCHANGED <<finance, seedRuns, printed, toolVars, roleVars, sessionVars>>

\* ------------------------------------------------------------------ role store
RoleTags      == {"restricted_db", "row_restricted", "limited_api_access", "mask_data"}
FileUsernames == {"user_a", "user_b"}
Usernames     == FileUsernames \cup {"user_c"}

\* The possible contents of user_roles.yaml: users: [{username, roles}, ...]
RoleFiles ==
    UNION {[1..n -> [username : FileUsernames, roles : SUBSET RoleTags]] : n \in 0..MaxUsers}

RECURSIVE ScanLast(_, _)
ScanLast(file, name) ==
    IF file = <<>> THEN {}
    ELSE IF file[Len(file)].username = name THEN file[Len(file)].roles
    ELSE ScanLast(SubSeq(file, 1, Len(file) - 1), name)

RECURSIVE get_user_roles(_, _)
\* for user in users: if user['username'] == username: return user['roles']; return []
get_user_roles(file, name) ==
    IF file = <<>> THEN {}
    ELSE IF Head(file).username = name THEN Head(file).roles
    ELSE get_user_roles(Tail(file), name)

NotCalled == [called |-> FALSE, roles |-> {}]

\* A call get_user_roles(name) against the file.
Lookup ==
    \E name \in Usernames :
        /\ username' = name
        /\ found' = [called |-> TRUE, roles |-> get_user_roles(users, name)]
        /\ UNCHANGED <<users, dbVars, seedVars, toolVars, sessionVars>>

\* ------------------------------------------------------------ policy selector
\* if "restricted_db" in roles: ... elif "row_restricted" in roles: ... else: ...
SelectRowLevelFirst(r) ==
    IF "row_restricted" \in r
        THEN [task |-> "Query row level restricted finance data",
              tool |-> "query_row_level_finance_data"]
    ELSE IF "restricted_db" \in r
        THEN [task |-> "Query limited finance data", tool |-> "query_limited_finance_data"]
    ELSE [task |-> "Query full finance data", tool |-> "query_finance_data"]

SelectIgnoresRowLevel(r) ==
    IF "restricted_db" \in r
        THEN [task |-> "Query limited finance data", tool |-> "query_limited_finance_data"]
    ELSE [task |-> "Query full finance data", tool |-> "query_finance_data"]

SelectQuery(r) ==
    IF "restricted_db" \in r
        THEN [task |-> "Query limited finance data", tool |-> "query_limited_finance_data"]
    ELSE IF "row_restricted" \in r
        THEN [task |-> "Query row level restricted finance data",
              tool |-> "query_row_level_finance_data"]
    ELSE [task |-> "Query full finance data", tool |-> "query_finance_data"]

\* f"{query_task} from the Neon database."
QueryMessage(task) == [role |-> "user", content |-> <<task, " from the Neon database.">>]

\* if "limited_api_access" not in roles:
ApiGatedByRestrictedDb(r) == "restricted_db" \notin r
ApiAllowed(r) == "limited_api_access" \notin r

\* if "mask_data" in roles: ... else: ...
PresentNeverMasks(r) == "Summarize the collected financial data into a clean report."
PresentInstruction(r) ==
    IF "mask_data" \in r THEN "Summarize the financial data but mask revenue and profit."
    ELSE "Summarize the collected financial data into a clean report."

UserMessage(content) == [role |-> "user", content |-> <<content>>]
SearchMessage  == UserMessage("Search for IBM's Q4 financial results from the web.")
FetchMessage   == UserMessage("Fetch IBM's latest stock data from Alpha Vantage.")

\* ---------------------------------------------------------------- the agents
\* toolset.add(FunctionTool([search_ibm_news, query_finance_data, fetch_financial_data]))
CollectorToolset == {"search_ibm_news", "query_finance_data", "fetch_financial_data"}

PresenterRunsAsCollector == "data_collector"
PresenterAgent == "data_presenter"

\* The tools registered on an agent (the presenter is created without a toolset).
Toolset(agent) == IF agent = "data_collector" THEN CollectorToolset ELSE {}

current_user == "user_b"

NoRun == [agent |-> "none", calls |-> 0]

\* ------------------------------------------------------- role-gated session
\* The registered Python function behind a tool name, applied in an environment.
ToolFunction(tool, fault, resp, t) ==
    CASE tool = "query_finance_data"           -> query_finance_data(fault, t)
      [] tool = "query_limited_finance_data"   -> query_limited_finance_data(fault, t)
      [] tool = "query_row_level_finance_data" -> query_row_level_finance_data(fault, t)
      [] tool = "fetch_financial_data"         -> fetch_financial_data(resp)
      [] tool = "search_ibm_news"              -> search_ibm_news(resp)

\* The environments of a tool call: a database fault with the fate of a
\* connection left open, or an HTTP response.
Environments(tool) ==
    IF tool \in {"fetch_financial_data", "search_ibm_news"}
        THEN [fault : {"none"}, resp : HttpResponses, reclaim : {FALSE}]
        ELSE [fault : DbFaults, resp : {NoResp}, reclaim : BOOLEAN]

\* What a returned string carries: an error, data lines, or neither.
Kind(ret) == IF ret.marker THEN "error" ELSE IF ret.lines # <<>> THEN "data" ELSE "none"

UserMessages(th) ==
    LET F[i \in 0..Len(th)] ==
            IF i = 0 THEN <<>>
            ELSE IF th[i].role = "user" THEN Append(F[i - 1], th[i]) ELSE F[i - 1]
    IN  F[Len(th)]

SessionStep(from, to) ==
    /\ pc = from
    /\ pc' = to
    /\ cur = NoRun
    /\ UNCHANGED <<dbVars, seedVars, toolVars, roleVars, runs, cur, delivered>>

\* thread = project_client.agents.create_thread()
CreateThread ==
    /\ SessionStep("create_thread", "get_roles")
    /\ UNCHANGED <<roles, thread, query_task, query_tool, present_instruction>>

\* roles = get_user_roles(current_user), on whatever the role file holds then
GetRoles ==
    /\ SessionStep("get_roles", "post_search")
    /\ \E file \in RoleFiles : roles' = get_user_roles(file, current_user)
    /\ UNCHANGED <<thread, query_task, query_tool, present_instruction>>

\* Internet search task
PostSearch ==
    /\ SessionStep("post_search", "run_search")
    /\ thread' = Append(thread, SearchMessage)
    /\ UNCHANGED <<roles, query_task, query_tool, present_instruction>>

\* Finance database task
PostQuery ==
    /\ SessionStep("post_query", "run_query")
    /\ query_task' = SelectQuery(roles).task
    /\ query_tool' = SelectQuery(roles).tool
    /\ thread' = Append(thread, QueryMessage(SelectQuery(roles).task))
    /\ UNCHANGED <<roles, present_instruction>>

\* Financial API task (only if allowed)
ApiTask ==
    /\ pc = "api_task"
    /\ cur = NoRun
    /\ IF ApiAllowed(roles)
          THEN /\ thread' = Append(thread, FetchMessage)
               /\ pc' = "run_fetch"
          ELSE /\ thread' = thread
               /\ pc' = "post_present"
    /\ UNCHANGED <<dbVars, seedVars, toolVars, roleVars, runs, cur, delivered, roles,
                   query_task, query_tool, present_instruction>>

\* Data presenter task
PostPresent ==
    /\ SessionStep("post_present", "run_present")
    /\ present_instruction' = PresentInstruction(roles)
    /\ thread' = Append(thread, UserMessage(PresentInstruction(roles)))
    /\ UNCHANGED <<roles, query_task, query_tool>>

RunPositions == {"run_search", "run_query", "run_fetch", "run_present"}

\* agent_id of the create_and_process_run call at a position
AgentAt(p) == IF p = "run_present" THEN PresenterAgent ELSE "data_collector"

AfterRun(p) ==
    CASE p = "run_search"  -> "post_query"
      [] p = "run_query"   -> "api_task"
      [] p = "run_fetch"   -> "post_present"
      [] p = "run_present" -> "display"

\* create_and_process_run(thread_id, agent_id): the run is created
RunStart ==
    /\ pc \in RunPositions
    /\ cur = NoRun
    /\ cur' = [agent |-> AgentAt(pc), calls |-> 0]
    /\ runs' = Append(runs, [agent |-> AgentAt(pc), msgs |-> Len(UserMessages(thread)),
                             status |-> "in_progress"])
    /\ UNCHANGED <<dbVars, seedVars, toolVars, roleVars, pc, roles, thread, query_task,
                   query_tool, present_instruction, delivered>>

\* ... the service asks for a tool registered on the run's agent, whichever it
\* judges relevant; the function runs and its output is handed to the service.
\* An exception escaping the function either ends the script or is dropped.
RunInvokesTool ==
    /\ cur # NoRun
    /\ nCalls < MaxToolCalls
    /\ \E tool \in Toolset(cur.agent) :
       \E env \in Environments(tool), propagate \in BOOLEAN :
       \E out \in {ToolFunction(tool, env.fault, env.resp, finance)} :
            /\ nCalls' = nCalls + 1
            /\ conns' = IF out.opened /\ ~out.closed /\ ~env.reclaim
                           THEN conns \cup {nCalls + 1} ELSE conns
            /\ delivered' = IF out.raised THEN delivered
                            ELSE delivered \cup {[tool |-> tool, kind |-> Kind(out.ret)]}
            /\ IF out.raised /\ propagate
                  THEN pc' = "crashed" /\ cur' = NoRun
                  ELSE pc' = pc /\ cur' = [cur EXCEPT !.calls = @ + 1]
    /\ UNCHANGED <<dbVars, seedVars, lastCall, roleVars, roles, thread, runs, query_task,
                   query_tool, present_instruction>>

\* ... and the blocking call returns once the run has ended; a completed run
\* leaves the agent's reply on the thread.
RunEnds ==
    /\ cur # NoRun
    /\ \E status \in {"completed", "failed"} :
        /\ runs' = [runs EXCEPT ![Len(runs)].status = status]
        /\ thread' = IF status = "completed"
                        THEN Append(thread, [role |-> "assistant", content |-> <<cur.agent>>])
                        ELSE thread
    /\ cur' = NoRun
    /\ pc' = AfterRun(pc)
    /\ UNCHANGED <<dbVars, seedVars, toolVars, roleVars, roles, query_task, query_tool,
                   present_instruction, delivered>>

\* Display results: list_messages and the printing loop
Display ==
    /\ SessionStep("display", "done")
    /\ UNCHANGED <<roles, thread, query_task, query_tool, present_instruction>>

\* A call to the agent service (or the role file read) raises: the script ends.
ServiceError ==
    /\ pc \notin {"done", "crashed"}
    /\ pc' = "crashed"
    /\ cur' = NoRun
    /\ UNCHANGED <<dbVars, seedVars, toolVars, roleVars, roles, thread, runs, query_task,
                   query_tool, present_instruction, delivered>>

\* ------------------------------------------------------------ specifications
SessionIdle ==
    /\ pc = "create_thread"
    /\ roles = {}
    /\ thread = <<>>
    /\ runs = <<>>
    /\ cur = NoRun
    /\ query_task = ""
    /\ query_tool = ""
    /\ present_instruction = ""
    /\ delivered = {}

ToolsIdle ==
    /\ conns = {}
    /\ nCalls = 0
    /\ lastCall = [tool |-> "none", fault |-> "none", resp |-> NoResp,
                   out |-> Returned(Text(FALSE, "", "", <<>>), FALSE, FALSE),
                   seeded |-> FALSE]

SeedIdle ==
    /\ seed_pc = "start"
    /\ tx = NoTable
    /\ seedRuns = [started |-> 0, completed |-> 0]
    /\ printed = <<>>
    /\ lock = FALSE

RolesIdle ==
    /\ users = <<>>
    /\ username = ""
    /\ found = NotCalled

\* The role-gated session, on the seeded database.
Init ==
    /\ finance = SeededTable
    /\ SeedIdle /\ ToolsIdle /\ RolesIdle /\ SessionIdle

Next ==
    \/ CreateThread
    \/ GetRoles
    \/ PostSearch
    \/ PostQuery
    \/ ApiTask
    \/ PostPresent
    \/ RunStart
    \/ RunInvokesTool
    \/ RunEnds
    \/ Display
    \/ ServiceError

Spec == Init /\ [][Next]_vars

\* The tool layer and the seeding script, on any prior state of the database.
InitTools ==
    /\ finance \in {NoTable, EmptyTable, StaleTable, SeededTable}
    /\ SeedIdle /\ ToolsIdle /\ RolesIdle /\ SessionIdle

NextTools ==
    \/ CallQueryFinanceData
    \/ CallQueryLimitedFinanceData
    \/ CallQueryRowLevelFinanceData
    \/ CallOneQueryFinanceData
    \/ CallFetchFinancialData
    \/ CallSearchIbmNews
    \/ CallFetchIbmStock
    \/ CallOneSearchIbmNews
    \/ SeedConnect
    \/ SeedDrop
    \/ SeedCreate
    \/ SeedInsert
    \/ SeedCommit
    \/ SeedSelect
    \/ SeedClose
    \/ SeedFail

SpecTools == InitTools /\ [][NextTools]_vars

\* The role store, on any role file.
InitRoles ==
    /\ users \in RoleFiles
    /\ username = ""
    /\ found = NotCalled
    /\ finance = SeededTable
    /\ SeedIdle /\ ToolsIdle /\ SessionIdle

SpecRoles == InitRoles /\ [][Lookup]_vars

\* ===================================================================== claims
AfterQuery == {"run_query", "api_task", "run_fetch", "post_present", "run_present",
               "display", "done"}
AfterApi   == {"post_present", "run_present", "display", "done"}
AfterPresent == {"run_present", "display", "done"}

\* The finance-database messages on the thread.
QueryMessages ==
    {i \in DOMAIN thread :
        /\ thread[i].role = "user"
        /\ Len(thread[i].content) = 2
        /\ thread[i].content[2] = " from the Neon database."}

\* C1: whenever restricted_db is among the roles (with or without any other
\* tag), the finance-database task, once chosen, is the limited-column query
\* ("Query limited finance data" / query_limited_finance_data), and neither the
\* full nor the row-restricted query is ever chosen or posted.
C1_RestrictedDbSelectsLimited ==
    "restricted_db" \in roles =>
        /\ pc \in AfterQuery =>
              /\ query_tool = "query_limited_finance_data"
              /\ query_task = "Query limited finance data"
              /\ \E i \in QueryMessages : thread[i].content[1] = "Query limited finance data"
        /\ query_tool \notin {"query_finance_data", "query_row_level_finance_data"}
        /\ \A i \in QueryMessages :
              thread[i].content[1] \notin {"Query full finance data",
                                           "Query row level restricted finance data"}

C1_Witness ==
    /\ pc = "done"
    /\ {"restricted_db", "row_restricted"} \subseteq roles
    /\ query_tool = "query_limited_finance_data"

\* C2: without restricted_db, the finance-database task is the row-filtered
\* query exactly when row_restricted is among the roles and the full query
\* exactly when it is not; and for every role collection exactly one query task
\* is posted per session (none before the task's turn, one from then on).
C2_RowRestrictedOrFull ==
    /\ ("restricted_db" \notin roles /\ pc \in AfterQuery) =>
          /\ query_tool = "query_row_level_finance_data" <=> "row_restricted" \in roles
          /\ query_tool = "query_finance_data" <=> "row_restricted" \notin roles
          /\ query_task = "Query row level restricted finance data"
                <=> "row_restricted" \in roles
          /\ query_task = "Query full finance data" <=> "row_restricted" \notin roles
          /\ \A i \in QueryMessages : thread[i].content[1] = query_task
    /\ pc \in AfterQuery => Cardinality(QueryMessages) = 1
    /\ Cardinality(QueryMessages) <= 1

C2_Witness ==
    /\ pc = "done"
    /\ "restricted_db" \notin roles
    /\ "row_restricted" \in roles
    /\ query_tool = "query_row_level_finance_data"
    /\ Cardinality(QueryMessages) = 1

\* The stock-quote fetch messages on the thread, and the runs started on them.
FetchMessages ==
    {i \in DOMAIN thread :
        thread[i] = [role |-> "user",
                     content |-> <<"Fetch IBM's latest stock data from Alpha Vantage.">>]}

FetchRuns ==
    {j \in DOMAIN runs :
        \E i \in FetchMessages : runs[j].msgs = Len(UserMessages(SubSeq(thread, 1, i)))}

\* C4: the stock-quote fetch task is never posted when limited_api_access is
\* among the roles, and otherwise is posted once and run once by the time the
\* session moves on to the presentation; no other tag enters into it.
C4_ApiGating ==
    /\ "limited_api_access" \in roles => FetchMessages = {} /\ pc # "run_fetch"
    /\ ("limited_api_access" \notin roles /\ pc \in AfterApi) =>
          Cardinality(FetchMessages) = 1 /\ Cardinality(FetchRuns) = 1
    /\ Cardinality(FetchMessages) <= 1
    /\ Cardinality(FetchRuns) <= 1

C4_Witness ==
    /\ pc = "done"
    /\ roles = {"limited_api_access", "restricted_db", "mask_data"}
    /\ FetchMessages = {}
    /\ Len(runs) = 3

\* C5: the instruction posted for the presenter is the masked-summary
\* instruction when mask_data is among the roles and the full-summary
\* instruction when it is not, whatever the other tags.
C5_PresentInstruction ==
    pc \in AfterPresent =>
        LET expected ==
                IF "mask_data" \in roles
                    THEN "Summarize the financial data but mask revenue and profit."
                    ELSE "Summarize the collected financial data into a clean report."
            posted == UserMessages(thread)
        IN  /\ present_instruction = expected
            /\ posted[Len(posted)] = [role |-> "user", content |-> <<expected>>]

C5_Witness ==
    /\ pc = "done"
    /\ roles = {"mask_data", "restricted_db"}
    /\ present_instruction = "Summarize the financial data but mask revenue and profit."

\* The tasks a session posts for a role collection, in order.
ExpectedTasks(r) ==
    <<  <<"Search for IBM's Q4 financial results from the web.">>,
        <<(IF "restricted_db" \in r THEN "Query limited finance data"
           ELSE IF "row_restricted" \in r THEN "Query row level restricted finance data"
           ELSE "Query full finance data"), " from the Neon database.">> >>
    \o (IF "limited_api_access" \in r THEN <<>>
        ELSE << <<"Fetch IBM's latest stock data from Alpha Vantage.">> >>)
    \o << <<(IF "mask_data" \in r
              THEN "Summarize the financial data but mask revenue and profit."
              ELSE "Summarize the collected financial data into a clean report.")>> >>

\* C10: the session is one linear sequence: the user messages on the thread are
\* always a prefix of web search, finance query, stock fetch (unless gated off),
\* presentation; the i-th run starts when exactly i messages are posted and no
\* message is posted while a run is in progress; every run but the one on the
\* last task is the collector's and that one is the presenter's, so the
\* presenter starts only after every collector run has ended; a finished
\* session has posted and run every task.
C10_LinearSession ==
    LET posted   == UserMessages(thread)
        expected == ExpectedTasks(roles)
    IN  /\ Len(posted) <= Len(expected)
        /\ \A i \in DOMAIN posted : posted[i].content = expected[i]
        /\ Len(runs) <= Len(posted) /\ Len(posted) <= Len(runs) + 1
        /\ cur # NoRun => Len(runs) = Len(posted)
        /\ \A i \in DOMAIN runs :
              /\ runs[i].msgs = i
              /\ runs[i].agent =
                    IF i = Len(expected) THEN "data_presenter" ELSE "data_collector"
              /\ runs[i].status = "in_progress" => i = Len(runs)
        /\ cur # NoRun => cur.agent = runs[Len(runs)].agent
        /\ pc \notin {"create_thread", "get_roles", "post_search", "crashed"} =>
              Len(posted) >= 1
        /\ pc = "done" =>
              /\ Len(posted) = Len(expected)
              /\ Len(runs) = Len(expected)
              /\ \A i \in DOMAIN runs : runs[i].status # "in_progress"

C10_Witness ==
    /\ pc = "run_present"
    /\ cur # NoRun
    /\ cur.agent = "data_presenter"
    /\ Len(runs) = 4
    /\ "mask_data" \in roles

\* C3 (as claimed): for a user whose roles include restricted_db, the full-table
\* query query_finance_data is never executed and its result never handed on.
C3_RestrictedNeverGetsFullTable ==
    "restricted_db" \in roles =>
        \A d \in delivered : d.tool # "query_finance_data"

\* C6: get_user_roles(username) returns the roles of the first entry of the
\* file with that username, and the empty collection when there is none.
C6_FirstMatchOrEmpty ==
    found.called =>
        LET matches == {i \in DOMAIN users : users[i].username = username}
        IN  IF matches = {} THEN found.roles = {}
            ELSE found.roles =
                    users[CHOOSE i \in matches : \A j \in matches : i <= j].roles

C6_Witness ==
    /\ found.called
    /\ Len(users) = 2
    /\ users[1].username = username /\ users[2].username = username
    /\ users[1].roles # users[2].roles
    /\ found.roles = users[1].roles

DbToolNames == {"query_finance_data", "query_limited_finance_data",
                "query_row_level_finance_data", "one_query_finance_data"}
HttpToolNames == {"fetch_financial_data", "search_ibm_news", "fetch_ibm_stock",
                  "one_search_ibm_news"}

\* C7: a database tool never raises to its caller and returns an
\* error-marker-prefixed string whenever connecting, executing, fetching or
\* closing raised; an HTTP tool that received a non-200 response returns an
\* error-marker-prefixed string and does not raise.
C7_FailuresBecomeStrings ==
    /\ lastCall.tool \in DbToolNames =>
          /\ ~lastCall.out.raised
          /\ lastCall.fault # "none" => lastCall.out.ret.marker
    /\ (lastCall.tool \in HttpToolNames /\ lastCall.resp.status \in {404, 500}) =>
          ~lastCall.out.raised /\ lastCall.out.ret.marker

C7_Witness ==
    /\ lastCall.tool = "query_row_level_finance_data"
    /\ lastCall.fault = "fetchall"
    /\ lastCall.out.ret.marker
    /\ ~lastCall.out.raised

\* C8: a full-table query made after the seeding script ran to completion, and
\* answered without error, returns the 10 seeded records and nothing else, each
\* with company, revenue, profit, stock price and classification as seeded.
C8_SeedRoundTrip ==
    (lastCall.tool = "query_finance_data" /\ lastCall.seeded
        /\ ~lastCall.out.raised /\ ~lastCall.out.ret.marker) =>
        LET lines == lastCall.out.ret.lines
        IN  /\ Len(lines) = Len(financial_data)
            /\ \A i \in DOMAIN lines :
                  /\ lines[i].items.company = financial_data[i][1]
                  /\ lines[i].items.revenue = financial_data[i][2]
                  /\ lines[i].items.profit = financial_data[i][3]
                  /\ lines[i].items.stock_price = Normalise(financial_data[i][4])
                  /\ lines[i].items.user_role = financial_data[i][5]

C8_Witness ==
    /\ lastCall.tool = "query_finance_data"
    /\ lastCall.seeded
    /\ Len(lastCall.out.ret.lines) = 10
    /\ lastCall.out.ret.lines[10].items.company = "Samsung"
    /\ lastCall.out.ret.lines[10].items.stock_price = Dec(701, 1)

\* C9 (as claimed): after any sequence of tool calls, each of which has
\* returned, no connection opened by a call remains open.
C9_NoConnectionLeftOpen == conns = {}

====
